---- MODULE Spec2Model ----
(***************************************************************************)
(* MoviWeb-App: the three tables (users, movies, user_movies), the data    *)
(* access layer DataManagerSQLite, the metadata client and the route       *)
(* handlers that call them.                                                *)
(*                                                                         *)
(* Python values are encoded as follows.                                   *)
(*   None / optional value : <<>> for None, <<x>> for the value x          *)
(*   return values         : strings "True", "False", "None", "Movie",     *)
(*                           "Name" (a movie name), or the name of the     *)
(*                           exception that left the function              *)
(*   JSON / form bodies    : functions from the keys present to values     *)
(*                           [t |-> type tag, s |-> string, n |-> number]  *)
(* Ratings are floats in the code; the model uses a few integers.          *)
(***************************************************************************)
EXTENDS Integers, Sequences, FiniteSets, TLC

VARIABLES users, movies, user_movies, op, fetch, reqs

vars == <<users, movies, user_movies, op, fetch, reqs>>

(***************************************************************************)
(* Bounds and input domains.                                               *)
(***************************************************************************)
MaxMovieId == 2
MaxRowId == 2

Names == {"ann", "bob"}
Titles == {"A", "B"}
Years == {1999}
RatingValues == {5, 11}
UserIds == 1 .. Cardinality(Names)
MovieIds == 1 .. MaxMovieId
DefaultAvatar == "gravatar"

None == <<>>
Some(x) == <<x>>

Truthy(ret) == ret \in {"True", "Movie", "Name"}
Raised(ret) ==
    ret \in {"AttributeError", "TypeError", "KeyError", "ValueError",
             "IntegrityError", "ObjectDeletedError", "UnmappedInstanceError"}

(***************************************************************************)
(* Tables.  A database value is a record of the three tables.              *)
(***************************************************************************)
User(user_id, user_name, avatar_url) ==
    [user_id |-> user_id, user_name |-> user_name, avatar_url |-> avatar_url]

\* director, genre, poster_url and plot are string columns that every
\* operation handles as it handles year; year stands for them.
Movie(movie_id, movie_name, year) ==
    [movie_id |-> movie_id, movie_name |-> movie_name, year |-> year]

UserMovie(id, user_id, movie_id, rating) ==
    [id |-> id, user_id |-> user_id, movie_id |-> movie_id, rating |-> rating]

DB == [users |-> users, movies |-> movies, user_movies |-> user_movies]

SetMax(S) == CHOOSE x \in S : \A y \in S : y <= x
SetMin(S) == CHOOSE x \in S : \A y \in S : x <= y

\* INTEGER PRIMARY KEY on SQLite without the AUTOINCREMENT keyword: the new
\* rowid is one more than the largest rowid in the table.
NextId(ids) == IF ids = {} THEN 1 ELSE SetMax(ids) + 1

\* Query.filter_by(...).first(): LIMIT 1 over a table scan, which SQLite
\* runs in rowid order.  The result is None or the row with the least key.
first_user(rows) ==
    IF rows = {} THEN None
    ELSE Some(CHOOSE r \in rows : r.user_id = SetMin({x.user_id : x \in rows}))

first_movie(rows) ==
    IF rows = {} THEN None
    ELSE Some(CHOOSE r \in rows : r.movie_id = SetMin({x.movie_id : x \in rows}))

first_user_movie(rows) ==
    IF rows = {} THEN None
    ELSE Some(CHOOSE r \in rows : r.id = SetMin({x.id : x \in rows}))

(***************************************************************************)
(* DataManagerSQLite.  Each operator maps a database and the arguments to  *)
(* the database after the call and the value returned.                     *)
(***************************************************************************)
get_user_name(db, user_id) ==
    LET user == first_user({u \in db.users : u.user_id = user_id})
    IN  IF user = None THEN None ELSE Some(user[1].user_name)

get_movie(db, movie_id) ==
    first_movie({m \in db.movies : m.movie_id = movie_id})

\* (movie.movie_relation, movie.rating) for every association of the user
get_user_movies(db, user_id) ==
    {<<get_movie(db, um.movie_id), um.rating>> :
        um \in {x \in db.user_movies : x.user_id = user_id}}

\* add_user that replaces the row of an existing name by a new one
add_user_reinsert(db, new_user) ==
    LET others == {u \in db.users : u.user_name # new_user.user_name}
    IN  [db |-> [db EXCEPT !.users = others \cup
                   {User(NextId({u.user_id : u \in db.users}),
                         new_user.user_name, new_user.avatar_url)}],
         ret |-> "True"]

\* add_user without the look-up by name
add_user_no_lookup(db, new_user) ==
    [db |-> [db EXCEPT !.users = @ \cup
               {User(NextId({u.user_id : u \in db.users}),
                     new_user.user_name, new_user.avatar_url)}],
     ret |-> "True"]

add_user(db, new_user) ==
    LET user_exists == first_user({u \in db.users :
                                     u.user_name = new_user.user_name})
    IN  IF user_exists # None
        THEN [db |-> db, ret |-> "False"]
        ELSE [db |-> [db EXCEPT !.users = @ \cup
                        {User(NextId({u.user_id : u \in db.users}),
                              new_user.user_name, new_user.avatar_url)}],
              ret |-> "True"]

\* add_movie that writes the attributes of new_movie to the existing row
add_movie_overwrite(db, new_movie, user_id) ==
    LET movie_exists == first_movie({m \in db.movies :
                                       m.movie_name = new_movie.movie_name})
        db1 == IF movie_exists = None
               THEN [db EXCEPT !.movies = @ \cup
                       {Movie(NextId({m.movie_id : m \in db.movies}),
                              new_movie.movie_name, new_movie.year)}]
               ELSE [db EXCEPT !.movies = (@ \ {movie_exists[1]}) \cup
                       {Movie(movie_exists[1].movie_id,
                              new_movie.movie_name, new_movie.year)}]
        movie == first_movie({m \in db1.movies :
                                m.movie_name = new_movie.movie_name})[1]
        user_relationship_exists ==
            first_user_movie({um \in db1.user_movies :
                                /\ um.user_id = user_id
                                /\ um.movie_id = movie.movie_id})
    IN  IF user_relationship_exists = None
        THEN [db |-> [db1 EXCEPT !.user_movies = @ \cup
                        {UserMovie(NextId({um.id : um \in db1.user_movies}),
                                   user_id, movie.movie_id, None)}],
              ret |-> "True"]
        ELSE [db |-> db1, ret |-> "False"]

\* add_movie without the look-up of the user's association
add_movie_no_pair_lookup(db, new_movie, user_id) ==
    LET movie_exists == first_movie({m \in db.movies :
                                       m.movie_name = new_movie.movie_name})
        db1 == IF movie_exists = None
               THEN [db EXCEPT !.movies = @ \cup
                       {Movie(NextId({m.movie_id : m \in db.movies}),
                              new_movie.movie_name, new_movie.year)}]
               ELSE db
        movie == first_movie({m \in db1.movies :
                                m.movie_name = new_movie.movie_name})[1]
    IN  [db |-> [db1 EXCEPT !.user_movies = @ \cup
                   {UserMovie(NextId({um.id : um \in db1.user_movies}),
                              user_id, movie.movie_id, None)}],
         ret |-> "True"]

\* add_movie that inserts the Movie row without the look-up by title
add_movie_no_title_lookup(db, new_movie, user_id) ==
    LET db1 == [db EXCEPT !.movies = @ \cup
                  {Movie(NextId({m.movie_id : m \in db.movies}),
                         new_movie.movie_name, new_movie.year)}]
        movie == first_movie({m \in db1.movies :
                                m.movie_name = new_movie.movie_name})[1]
        user_relationship_exists ==
            first_user_movie({um \in db1.user_movies :
                                /\ um.user_id = user_id
                                /\ um.movie_id = movie.movie_id})
    IN  IF user_relationship_exists = None
        THEN [db |-> [db1 EXCEPT !.user_movies = @ \cup
                        {UserMovie(NextId({um.id : um \in db1.user_movies}),
                                   user_id, movie.movie_id, None)}],
              ret |-> "True"]
        ELSE [db |-> db1, ret |-> "False"]

add_movie(db, new_movie, user_id) ==
    LET movie_exists == first_movie({m \in db.movies :
                                       m.movie_name = new_movie.movie_name})
        db1 == IF movie_exists = None
               THEN [db EXCEPT !.movies = @ \cup
                       {Movie(NextId({m.movie_id : m \in db.movies}),
                              new_movie.movie_name, new_movie.year)}]
               ELSE db
        movie == first_movie({m \in db1.movies :
                                m.movie_name = new_movie.movie_name})[1]
        user_relationship_exists ==
            first_user_movie({um \in db1.user_movies :
                                /\ um.user_id = user_id
                                /\ um.movie_id = movie.movie_id})
    IN  IF user_relationship_exists = None
        THEN [db |-> [db1 EXCEPT !.user_movies = @ \cup
                        {UserMovie(NextId({um.id : um \in db1.user_movies}),
                                   user_id, movie.movie_id, None)}],
              ret |-> "True"]
        ELSE [db |-> db1, ret |-> "False"]

\* update_rating that creates the association when there is none
update_rating_upsert(db, user_id, movie_id, rating) ==
    LET user_rating == first_user_movie({um \in db.user_movies :
                                           /\ um.user_id = user_id
                                           /\ um.movie_id = movie_id})
    IN  IF user_rating # None
        THEN [db |-> [db EXCEPT !.user_movies =
                        (@ \ {user_rating[1]}) \cup
                        {[user_rating[1] EXCEPT !.rating = Some(rating)]}],
              ret |-> "True"]
        ELSE [db |-> [db EXCEPT !.user_movies = @ \cup
                        {UserMovie(NextId({um.id : um \in db.user_movies}),
                                   user_id, movie_id, Some(rating))}],
              ret |-> "True"]

\* update_rating that filters by user_id only
update_rating_by_user(db, user_id, movie_id, rating) ==
    LET user_rating == first_user_movie({um \in db.user_movies :
                                           /\ um.user_id = user_id
                                           /\ um.movie_id = movie_id})
    IN  IF user_rating # None
        THEN [db |-> [db EXCEPT !.user_movies =
                        {IF um.user_id = user_id
                         THEN [um EXCEPT !.rating = Some(rating)] ELSE um :
                            um \in @}],
              ret |-> "True"]
        ELSE [db |-> db, ret |-> "None"]

update_rating(db, user_id, movie_id, rating) ==
    LET user_rating == first_user_movie({um \in db.user_movies :
                                           /\ um.user_id = user_id
                                           /\ um.movie_id = movie_id})
    IN  IF user_rating # None
        THEN [db |-> [db EXCEPT !.user_movies =
                        (@ \ {user_rating[1]}) \cup
                        {[user_rating[1] EXCEPT !.rating = Some(rating)]}],
              ret |-> "True"]
        ELSE [db |-> db, ret |-> "None"]

\* updated_movie is the object the caller passes: None, or the session's
\* Movie object carrying the attribute changes the caller has set on it.
\* commit() flushes those changes to the row with the object's primary key.
update_movie(db, updated_movie) ==
    IF updated_movie = None
    THEN [db |-> db, ret |-> "AttributeError"]
    ELSE LET movie_to_update ==
                 first_movie({m \in db.movies :
                                m.movie_id = updated_movie[1].movie_id})
         IN  IF movie_to_update # None
             THEN [db |-> [db EXCEPT !.movies =
                             (@ \ {movie_to_update[1]}) \cup {updated_movie[1]}],
                   ret |-> "Name"]
             ELSE [db |-> db, ret |-> "False"]

\* delete_movie that never deletes the Movie row
delete_movie_no_cascade(db, user_id, movie_id) ==
    LET movie_name == first_movie({m \in db.movies : m.movie_id = movie_id})
        user_movie == first_user_movie({um \in db.user_movies :
                                          /\ um.user_id = user_id
                                          /\ um.movie_id = movie_id})
        db1 == [db EXCEPT !.user_movies = @ \ {user_movie[1]}]
    IN  IF movie_name = None
        THEN [db |-> db, ret |-> "AttributeError"]
        ELSE IF user_movie # None
        THEN [db |-> db1, ret |-> "Movie"]
        ELSE [db |-> db, ret |-> "False"]

\* delete_movie that looks for the remaining associations of the user
\* instead of those of the movie
delete_movie_others_by_user(db, user_id, movie_id) ==
    LET movie_name == first_movie({m \in db.movies : m.movie_id = movie_id})
        user_movie == first_user_movie({um \in db.user_movies :
                                          /\ um.user_id = user_id
                                          /\ um.movie_id = movie_id})
        db1 == [db EXCEPT !.user_movies = @ \ {user_movie[1]}]
        other_users == {um \in db1.user_movies : um.user_id = user_id}
        movie == first_movie({m \in db1.movies : m.movie_id = movie_id})
    IN  IF movie_name = None
        THEN [db |-> db, ret |-> "AttributeError"]
        ELSE IF user_movie # None
        THEN IF other_users = {}
             THEN [db |-> [db1 EXCEPT !.movies = @ \ {movie[1]}],
                   ret |-> "Movie"]
             ELSE [db |-> db1, ret |-> "Movie"]
        ELSE [db |-> db, ret |-> "False"]

\* delete_movie that deletes every association of the movie
delete_movie_all_users(db, user_id, movie_id) ==
    LET movie_name == first_movie({m \in db.movies : m.movie_id = movie_id})
        user_movie == first_user_movie({um \in db.user_movies :
                                          /\ um.user_id = user_id
                                          /\ um.movie_id = movie_id})
        db1 == [db EXCEPT !.user_movies =
                  {um \in @ : um.movie_id # movie_id}]
        movie == first_movie({m \in db1.movies : m.movie_id = movie_id})
    IN  IF movie_name = None
        THEN [db |-> db, ret |-> "AttributeError"]
        ELSE IF user_movie # None
        THEN [db |-> [db1 EXCEPT !.movies = @ \ {movie[1]}], ret |-> "Movie"]
        ELSE [db |-> db, ret |-> "False"]

delete_movie(db, user_id, movie_id) ==
    LET movie_name == first_movie({m \in db.movies : m.movie_id = movie_id})
        user_movie == first_user_movie({um \in db.user_movies :
                                          /\ um.user_id = user_id
                                          /\ um.movie_id = movie_id})
        db1 == [db EXCEPT !.user_movies = @ \ {user_movie[1]}]
        other_users == {um \in db1.user_movies : um.movie_id = movie_id}
        movie == first_movie({m \in db1.movies : m.movie_id = movie_id})
    IN  IF movie_name = None
        THEN [db |-> db, ret |-> "AttributeError"]
        ELSE IF user_movie # None
        THEN IF other_users = {}
             THEN [db |-> [db1 EXCEPT !.movies = @ \ {movie[1]}],
                   ret |-> "Movie"]
             ELSE [db |-> db1, ret |-> "Movie"]
        ELSE [db |-> db, ret |-> "False"]

(***************************************************************************)
(* Metadata client (omdb_data_fetcher).  movie_info is the dictionary      *)
(* _get_movie_info returns: keys is the set of keys present, empty for {}; *)
(* Ratings is the list under "Ratings", each entry a dictionary with its   *)
(* own set of keys.                                                        *)
(***************************************************************************)
MovieAttributes == {"movie_id", "movie_name", "year", "director", "genre",
                    "poster_url", "plot", "user_movies"}

MovieKwargs == {"movie_name", "rating", "year", "director", "genre",
                "poster_url", "plot"}

Rating(keys, Source, Value) == [keys |-> keys, Source |-> Source, Value |-> Value]
IMDb == "Internet Movie Database"
ImdbRating(Value) == Rating({"Source", "Value"}, IMDb, Value)

MovieInfo(keys, Title, Year, Ratings) ==
    [keys |-> keys, Title |-> Title, Year |-> Year, Ratings |-> Ratings]

NotFoundInfo == MovieInfo({}, "", "", <<>>)
FoundInfo(t, y) ==
    MovieInfo({"Title", "Year", "Ratings"}, t, y, <<ImdbRating("8.5/10")>>)

\* int() of a string: the decimal strings the model uses; any other string
\* raises ValueError
Decimals == {"1999", "2000", "1800"}
int(str) == CASE str = "1999" -> 1999
              [] str = "2000" -> 2000
              [] str = "1800" -> 1800
              [] OTHER -> 0

\* float(rating_str.split("/")[0]), in tenths; "N/A" and the like raise
\* ValueError
Floats == {"8.5/10", "7.0/10"}
float(str) == CASE str = "8.5/10" -> 85
                [] str = "7.0/10" -> 70
                [] OTHER -> 0

\* _get_movie_rating: the first entry of the list whose Source is IMDb
\* decides; iterating None (no "Ratings" key) raises TypeError, and
\* None.split (entry without "Value") raises AttributeError
RECURSIVE scan_ratings(_)
scan_ratings(all_ratings) ==
    IF all_ratings = <<>> THEN [ret |-> "None", value |-> 0]
    ELSE LET rating == Head(all_ratings)
         IN  IF "Source" \in rating.keys /\ rating.Source = IMDb
             THEN IF "Value" \notin rating.keys
                  THEN [ret |-> "AttributeError", value |-> 0]
                  ELSE IF rating.Value \in Floats
                       THEN [ret |-> "float", value |-> float(rating.Value)]
                       ELSE [ret |-> "float", value |-> 0]
             ELSE scan_ratings(Tail(all_ratings))

get_movie_rating(movie_info) ==
    IF "Ratings" \notin movie_info.keys
    THEN [ret |-> "TypeError", value |-> 0]
    ELSE scan_ratings(movie_info.Ratings)

\* get_new_movie_data after _get_movie_info returned movie_info.  The
\* keyword arguments are evaluated in the order written: rating, then year.
\* The declarative constructor of a model class raises TypeError for a
\* keyword that is not an attribute of the class.  TypeError is caught and
\* None returned; any other exception leaves the function.  The result is
\* the outcome (ret) and the Movie object, if one was built.
get_new_movie_data(movie_info) ==
    IF movie_info.keys = {} THEN [ret |-> "None", movie |-> None]
    ELSE LET rating == get_movie_rating(movie_info)
         IN  IF rating.ret = "TypeError" THEN [ret |-> "None", movie |-> None]
             ELSE IF Raised(rating.ret) THEN [ret |-> rating.ret, movie |-> None]
             ELSE IF "Year" \in movie_info.keys /\ movie_info.Year \notin Decimals
                  THEN [ret |-> "ValueError", movie |-> None]
             ELSE IF ~ (MovieKwargs \subseteq MovieAttributes)
                  THEN [ret |-> "None", movie |-> None]
             ELSE [ret |-> "Movie",
                   movie |-> Some([movie_name |-> movie_info.Title,
                                   year |-> IF "Year" \in movie_info.keys
                                            THEN int(movie_info.Year)
                                            ELSE 0])]

(***************************************************************************)
(* _get_movie_info.  A response is what one req.get(url, timeout=10)       *)
(* followed by raise_for_status gives: an HTTP response with its status    *)
(* and text, or an exception of the requests library.  text is "found"     *)
(* (JSON of a movie, decoded as info), "not_found" (JSON holding "Movie    *)
(* not found!") or "undecodable".                                          *)
(***************************************************************************)
max_retries == 3
initial_delay == 1

Response(kind, status, text, info) ==
    [kind |-> kind, status |-> status, text |-> text, info |-> info]

HttpResponse(status, text, info) == Response("response", status, text, info)
RequestError(kind) == Response(kind, 0, "", NotFoundInfo)

\* raise_for_status raises HTTPError for 4xx and 5xx
IsHTTPError(response) == response.kind = "response" /\ response.status >= 400

\* the state of one call of get_new_movie_data: where it is (pc), the
\* responses received so far, retries, the delays slept, the dictionary
\* _get_movie_info returned (info), and the outcome and Movie object of
\* get_new_movie_data
FetchState(pc, responses, retries, sleeps, info, out, movie) ==
    [pc |-> pc, responses |-> responses, retries |-> retries,
     sleeps |-> sleeps, info |-> info, out |-> out, movie |-> movie]

IdleFetch == FetchState("idle", <<>>, 0, <<>>, NotFoundInfo, "", None)

\* return from _get_movie_info
fetch_return(f, info) == [f EXCEPT !.pc = "returned", !.info = info]

\* one iteration of the while loop, with the loop test that follows it
attempt_retry_any_http_error(f, response) ==
    LET g == [f EXCEPT !.responses = Append(@, response)]
    IN  IF IsHTTPError(response)
        THEN LET retries == f.retries + 1
                 delay == initial_delay * (2 ^ (retries - 1))
                 h == [g EXCEPT !.retries = retries,
                                !.sleeps = Append(@, delay)]
             IN  IF retries < max_retries THEN h
                 ELSE fetch_return(h, NotFoundInfo)
        ELSE IF response.kind # "response"
        THEN fetch_return(g, NotFoundInfo)
        ELSE IF response.text = "undecodable"
        THEN fetch_return(g, NotFoundInfo)
        ELSE IF response.text = "not_found"
        THEN fetch_return(g, NotFoundInfo)
        ELSE fetch_return(g, response.info)

attempt(f, response) ==
    LET g == [f EXCEPT !.responses = Append(@, response)]
    IN  IF IsHTTPError(response)
        THEN IF response.status = 500
             THEN LET retries == f.retries + 1
                      \* exponential backoff
                      delay == initial_delay * (2 ^ (retries - 1))
                      h == [g EXCEPT !.retries = retries,
                                     !.sleeps = Append(@, delay)]
                  IN  IF retries < max_retries THEN h
                      ELSE fetch_return(h, NotFoundInfo)
             ELSE \* break
                  fetch_return(g, NotFoundInfo)
        ELSE IF response.kind # "response"
        THEN \* ConnectionError, Timeout, RequestException: break
             fetch_return(g, NotFoundInfo)
        ELSE IF response.text = "undecodable"
        THEN \* json.JSONDecodeError: break
             fetch_return(g, NotFoundInfo)
        ELSE IF response.text = "not_found"
        THEN fetch_return(g, NotFoundInfo)
        ELSE fetch_return(g, response.info)

(***************************************************************************)
(* The record of the last completed operation: its name, the value the     *)
(* data layer returned (ret), the HTTP status of a route (0 for a direct   *)
(* call), the collaborators the route invoked, and by how many rows the    *)
(* operation changed the movies and user_movies tables.                    *)
(***************************************************************************)
Op(name, db, r) ==
    [name |-> name, ret |-> r.ret, status |-> 0, calls |-> {},
     d_movies |-> Cardinality(r.db.movies) - Cardinality(db.movies),
     d_user_movies |->
         Cardinality(r.db.user_movies) - Cardinality(db.user_movies)]

RouteOp(name, db, r) ==
    [Op(name, db, r) EXCEPT !.status = r.status, !.calls = r.calls]

Commit(db) ==
    /\ users' = db.users
    /\ movies' = db.movies
    /\ user_movies' = db.user_movies

(***************************************************************************)
(* Route handlers.  A handler maps the database and the request to the     *)
(* database after the request, the status answered, the collaborators      *)
(* invoked and the value the data layer returned.  An exception that       *)
(* leaves the handler is answered 500 by the framework.                    *)
(***************************************************************************)
Str(s) == [t |-> "str", s |-> s, n |-> 0]
Num(n) == [t |-> "num", s |-> "", n |-> n]
List == [t |-> "list", s |-> "", n |-> 0]
\* a JSON boolean: bool is a subclass of int, True is 1 and False is 0
Bool(b) == [t |-> "bool", s |-> "", n |-> IF b THEN 1 ELSE 0]

Resp(db, status, calls, ret) ==
    [db |-> db, status |-> status, calls |-> calls, ret |-> ret]

\* DataManagerSQLite.add_movie(self, new_movie, user_id) takes two
\* arguments; a call with any other number raises TypeError.
add_movie_params == <<"new_movie", "user_id">>

call_add_movie(db, args) ==
    IF Len(args) # Len(add_movie_params)
    THEN [db |-> db, ret |-> "TypeError"]
    ELSE add_movie(db, args[1], args[2])

\* app_csr.add_movie, POST
csr_add_movie_valid(new_movie) ==
    ~ (\/ new_movie.keys = {}
       \/ new_movie.movie_name.t # "str"
       \/ new_movie.rating.t # "num"
       \/ (10 < new_movie.rating.n /\ new_movie.rating.n < 0)
       \/ "movie_name" \notin new_movie.keys
       \/ "rating" \notin new_movie.keys)

csr_add_movie(db, user_id, new_movie, movie_info) ==
    IF new_movie.keys = {} THEN Resp(db, 400, {}, "None")
    ELSE IF "movie_name" \notin new_movie.keys THEN Resp(db, 500, {}, "KeyError")
    ELSE IF new_movie.movie_name.t # "str" THEN Resp(db, 400, {}, "None")
    ELSE IF "rating" \notin new_movie.keys THEN Resp(db, 500, {}, "KeyError")
    ELSE IF ~ csr_add_movie_valid(new_movie) THEN Resp(db, 400, {}, "None")
    ELSE LET rating == new_movie.rating.n
             fetched == get_new_movie_data(movie_info)
             new_movie_obj == fetched.movie
         IN  IF Raised(fetched.ret)
             THEN Resp(db, 500, {"data_fetcher"}, fetched.ret)
             ELSE IF new_movie_obj = None
             THEN \* new_movie is a dict: new_movie.movie_name raises
                  Resp(db, 500, {"data_fetcher"}, "AttributeError")
             ELSE LET r == call_add_movie(db, <<new_movie_obj[1], user_id, rating>>)
                  IN  IF Raised(r.ret)
                      THEN Resp(db, 500, {"data_fetcher", "add_movie"}, r.ret)
                      ELSE IF Truthy(r.ret)
                      THEN Resp(r.db, 201, {"data_fetcher", "add_movie"}, r.ret)
                      ELSE Resp(r.db, 400, {"data_fetcher", "add_movie"}, r.ret)

\* api.add_movie, POST
api_add_movie(db, user_id, new_movie, movie_info) ==
    IF \/ new_movie.keys = {}
       \/ ("movie_name" \notin new_movie.keys /\ "rating" \notin new_movie.keys)
    THEN Resp(db, 400, {}, "None")
    ELSE IF "movie_name" \notin new_movie.keys \/ "rating" \notin new_movie.keys
    THEN Resp(db, 500, {}, "KeyError")
    ELSE IF new_movie.movie_name.t # "str"
    THEN \* movie_name.replace(" ", "+") inside get_new_movie_data
         Resp(db, 500, {"data_fetcher"},
              IF new_movie.movie_name.t = "num" THEN "AttributeError"
              ELSE "TypeError")
    ELSE LET rating == new_movie.rating
             fetched == get_new_movie_data(movie_info)
             new_movie_obj == fetched.movie
         IN  IF Raised(fetched.ret)
             THEN Resp(db, 500, {"data_fetcher"}, fetched.ret)
             ELSE IF new_movie_obj = None
             THEN Resp(db, 500, {"data_fetcher"}, "AttributeError")
             ELSE LET r == call_add_movie(db, <<new_movie_obj[1], user_id, rating>>)
                  IN  IF Raised(r.ret)
                      THEN Resp(db, 500, {"data_fetcher", "add_movie"}, r.ret)
                      ELSE IF Truthy(r.ret)
                      THEN Resp(r.db, 201, {"data_fetcher", "add_movie"}, r.ret)
                      ELSE Resp(r.db, 400, {"data_fetcher", "add_movie"}, r.ret)

\* app_ssr.add_movie, POST: the form carries movie_name only
ssr_add_movie(db, user_id, form, movie_info) ==
    LET fetched == get_new_movie_data(movie_info)
        new_movie_obj == fetched.movie
    IN  IF Raised(fetched.ret)
        THEN Resp(db, 500, {"data_fetcher"}, fetched.ret)
        ELSE IF new_movie_obj = None
        THEN Resp(db, 404, {"data_fetcher"}, "None")
        ELSE LET r == call_add_movie(db, <<new_movie_obj[1], user_id>>)
             IN  IF Raised(r.ret)
                 THEN Resp(db, 500, {"data_fetcher", "add_movie"}, r.ret)
                 ELSE IF Truthy(r.ret)
                 THEN Resp(r.db, 201, {"data_fetcher", "add_movie"}, r.ret)
                 ELSE Resp(r.db, 400, {"data_fetcher", "add_movie"}, r.ret)

\* app_csr.add_user, POST.  user.user_id is set by the commit in add_user
\* and stays None when add_user returns without adding.
csr_add_user(db, new_user) ==
    IF \/ new_user.keys = {}
       \/ "user_name" \notin new_user.keys
       \/ "avatar_url" \notin new_user.keys
    THEN Resp(db, 400, {}, "None")
    ELSE LET user == [user_name |-> new_user.user_name,
                      avatar_url |-> Some(new_user.avatar_url)]
             r == add_user(db, user)
         IN  IF ~ Truthy(r.ret)
             THEN Resp(r.db, 500, {"add_user"}, r.ret)
             ELSE Resp(r.db, 201, {"add_user"}, r.ret)

\* isinstance(rating['rating'], (float, int))
is_float_or_int(value) == value.t \in {"num", "bool"}

\* app_csr.update_rating whose range test is the chained comparison of
\* app_csr.add_movie
csr_update_rating_chained_range(db, user_id, movie_id, rating) ==
    IF \/ rating.keys = {}
       \/ "rating" \notin rating.keys
       \/ ~ is_float_or_int(rating.rating)
       \/ (10 < rating.rating.n /\ rating.rating.n < 0)
    THEN Resp(db, 400, {}, "None")
    ELSE LET movie == get_movie(db, movie_id)
             r == update_rating(db, user_id, movie_id, rating.rating.n)
         IN  IF movie = None
             THEN Resp(r.db, 500, {"get_movie", "update_rating"}, "AttributeError")
             ELSE IF Truthy(r.ret)
             THEN Resp(r.db, 200, {"get_movie", "update_rating"}, r.ret)
             ELSE Resp(r.db, 404, {"get_movie", "update_rating"}, r.ret)

\* app_csr.update_rating, POST; rating is the JSON body.  The response
\* message reads movie.movie_name, which raises when get_movie found no row.
csr_update_rating(db, user_id, movie_id, rating) ==
    IF \/ rating.keys = {}
       \/ "rating" \notin rating.keys
       \/ ~ is_float_or_int(rating.rating)
       \/ rating.rating.n < 0
       \/ rating.rating.n > 10
    THEN Resp(db, 400, {}, "None")
    ELSE LET movie == get_movie(db, movie_id)
             r == update_rating(db, user_id, movie_id, rating.rating.n)
         IN  IF movie = None
             THEN Resp(r.db, 500, {"get_movie", "update_rating"}, "AttributeError")
             ELSE IF Truthy(r.ret)
             THEN Resp(r.db, 200, {"get_movie", "update_rating"}, r.ret)
             ELSE Resp(r.db, 404, {"get_movie", "update_rating"}, r.ret)

\* app_ssr.update_movie, POST: every non-empty form value whose key is an
\* attribute of the Movie object is set on it, then update_movie commits.
\* A digit string written to the INTEGER column year is stored as the integer.
ssr_set_attributes(movie, form) ==
    LET m1 == IF "movie_name" \in form.keys /\ form.movie_name # ""
              THEN [movie EXCEPT !.movie_name = form.movie_name] ELSE movie
    IN  IF "year" \in form.keys /\ form.year # ""
        THEN [m1 EXCEPT !.year = int(form.year)] ELSE m1

ssr_update_movie(db, user_id, movie_id, form) ==
    LET found == get_movie(db, movie_id)
        movie_to_update == IF found # None
                           THEN Some(ssr_set_attributes(found[1], form))
                           ELSE None
        r == update_movie(db, movie_to_update)
    IN  IF Raised(r.ret) THEN Resp(db, 500, {"update_movie"}, r.ret)
        ELSE IF Truthy(r.ret) THEN Resp(r.db, 200, {"update_movie"}, r.ret)
        ELSE \* movie_to_update is None here: .movie_name raises
             Resp(db, 500, {"update_movie"}, "AttributeError")

\* app.update_rating, POST.  The rating is the form's text; the Float
\* column converts it on the way to the database.
to_float(text) == CASE text = "5" -> 5
                    [] text = "11" -> 11
                    [] OTHER -> 0

app_update_rating(db, user_id, movie_id, form) ==
    LET rating == to_float(form.rating)
        movie == get_movie(db, movie_id)
        updated_movie == update_rating(db, user_id, movie_id, rating)
    IN  IF movie = None
        THEN \* movie.movie_name raises in either message
             Resp(updated_movie.db, 500, {"get_movie", "update_rating"},
                  "AttributeError")
        ELSE IF Truthy(updated_movie.ret)
        THEN Resp(updated_movie.db, 200, {"get_movie", "update_rating"},
                  updated_movie.ret)
        ELSE Resp(updated_movie.db, 404, {"get_movie", "update_rating"},
                  updated_movie.ret)

\* app_csr.delete_movie, POST.  When delete_movie returns False the view
\* function ends without a return statement; the framework raises
\* TypeError for a view that returns None and answers 500.
csr_delete_movie(db, user_id, movie_id) ==
    IF get_user_name(db, user_id) = None THEN Resp(db, 404, {"get_user_name"}, "None")
    ELSE IF get_movie(db, movie_id) = None
    THEN Resp(db, 404, {"get_user_name", "get_movie"}, "None")
    ELSE LET deleted_movie == delete_movie(db, user_id, movie_id)
             calls == {"get_user_name", "get_movie", "delete_movie"}
         IN  IF Raised(deleted_movie.ret)
             THEN Resp(db, 500, calls, deleted_movie.ret)
             ELSE IF Truthy(deleted_movie.ret)
             THEN Resp(deleted_movie.db, 200, calls, deleted_movie.ret)
             ELSE Resp(deleted_movie.db, 500, calls, "TypeError")

\* app_csr._validate_movie_data.  A request body is a function from the
\* keys it holds to their values.
validation_rules ==
    <<[attribute |-> "movie_name", expected_type |-> "str", conditions |-> FALSE],
      [attribute |-> "director", expected_type |-> "str", conditions |-> FALSE],
      [attribute |-> "year", expected_type |-> "int", conditions |-> TRUE],
      [attribute |-> "genre", expected_type |-> "str", conditions |-> FALSE],
      [attribute |-> "poster_url", expected_type |-> "str", conditions |-> FALSE]>>

isinstance(value, expected_type) ==
    IF expected_type = "str" THEN value.t = "str"
    ELSE value.t \in {"num", "bool"}

\* len(str(y)) of an int or bool
RECURSIVE str_len(_)
str_len(y) ==
    IF y.t = "bool" THEN (IF y.n = 1 THEN 4 ELSE 5)
    ELSE IF y.n < 0 THEN 1 + str_len(Num(0 - y.n))
    ELSE IF y.n < 10 THEN 1
    ELSE 1 + str_len(Num(y.n \div 10))

\* lambda y: 1878 < y < 2031 and len(str(y)) == 4
year_condition(y) == 1878 < y.n /\ y.n < 2031 /\ str_len(y) = 4

\* setattr on the Movie object, for the columns the model keeps
setattr(movie, attribute, new_value) ==
    IF attribute = "movie_name" THEN [movie EXCEPT !.movie_name = new_value.s]
    ELSE IF attribute = "year" THEN [movie EXCEPT !.year = new_value.n]
    ELSE movie

\* the loop over validation_rules from rule i on: status 0 and the updated
\* object, or status 400 and the object with the attributes set so far
RECURSIVE validate_from(_, _, _)
validate_from(i, movie_to_update, current_movie) ==
    IF i > Len(validation_rules)
    THEN [status |-> 0, movie |-> current_movie]
    ELSE LET rule == validation_rules[i]
         IN  IF rule.attribute \notin DOMAIN movie_to_update
             THEN validate_from(i + 1, movie_to_update, current_movie)
             ELSE LET new_value == movie_to_update[rule.attribute]
                  IN  IF ~ isinstance(new_value, rule.expected_type)
                      THEN [status |-> 400, movie |-> current_movie]
                      ELSE IF rule.conditions /\ ~ year_condition(new_value)
                      THEN [status |-> 400, movie |-> current_movie]
                      ELSE validate_from(i + 1, movie_to_update,
                               setattr(current_movie, rule.attribute, new_value))

validate_movie_data(movie_to_update, current_movie) ==
    validate_from(1, movie_to_update, current_movie)

\* app_csr.update_movie that commits the session when validation fails
csr_update_movie_commit_invalid(db, user_id, movie_id, movie_to_update) ==
    IF get_user_name(db, user_id) = None THEN Resp(db, 404, {"get_user_name"}, "None")
    ELSE LET current_movie == get_movie(db, movie_id)
         IN  IF current_movie = None
             THEN Resp(db, 404, {"get_user_name", "get_movie"}, "None")
             ELSE IF DOMAIN movie_to_update = {}
             THEN Resp(db, 400, {"get_user_name", "get_movie"}, "None")
             ELSE LET updated_movie ==
                          validate_movie_data(movie_to_update, current_movie[1])
                      r == update_movie(db, Some(updated_movie.movie))
                  IN  IF updated_movie.status = 400
                      THEN Resp(r.db, 400, {"get_user_name", "get_movie"}, "None")
                      ELSE Resp(r.db, 200,
                                {"get_user_name", "get_movie", "update_movie"},
                                r.ret)

\* app_csr.update_movie, POST.  The attributes are set on the session's
\* Movie object; only update_movie commits, and a request that returns
\* before it leaves the changes to the session's removal at the end of the
\* request.  After update_movie both the success message and the fall
\* through to the GET description answer 200.
csr_update_movie(db, user_id, movie_id, movie_to_update) ==
    IF get_user_name(db, user_id) = None THEN Resp(db, 404, {"get_user_name"}, "None")
    ELSE LET current_movie == get_movie(db, movie_id)
         IN  IF current_movie = None
             THEN Resp(db, 404, {"get_user_name", "get_movie"}, "None")
             ELSE IF DOMAIN movie_to_update = {}
             THEN Resp(db, 400, {"get_user_name", "get_movie"}, "None")
             ELSE LET updated_movie ==
                          validate_movie_data(movie_to_update, current_movie[1])
                      r == update_movie(db, Some(updated_movie.movie))
                  IN  IF updated_movie.status = 400
                      THEN Resp(db, 400, {"get_user_name", "get_movie"}, "None")
                      ELSE Resp(r.db, 200,
                                {"get_user_name", "get_movie", "update_movie"},
                                r.ret)

(***************************************************************************)
(* Concurrent requests.  The development server handles each request in    *)
(* a thread of its own, with a session of its own.  A query reads the      *)
(* committed database at the moment it runs; session.commit() writes the   *)
(* pending rows.  A request is at a statement of the data layer method it  *)
(* runs (pc), with the method's local variables: found holds movie_exists  *)
(* / user_exists / user_movie, movie holds movie / movie_name.             *)
(***************************************************************************)
Procs == {1, 2}

Req(name, pc, user_name, user_id, title, movie_id) ==
    [name |-> name, pc |-> pc, user_name |-> user_name, user_id |-> user_id,
     title |-> title, movie_id |-> movie_id,
     found |-> None, movie |-> None, commits |-> 0, ret |-> ""]

IdleReq == Req("idle", "done", "", 0, "", 0)

\* the method returns: its local variables go
Return(r, ret) ==
    [r EXCEPT !.pc = "done", !.ret = ret, !.found = None, !.movie = None]

WithinBounds(db) ==
    /\ \A m \in db.movies : m.movie_id <= MaxMovieId
    /\ \A um \in db.user_movies : um.id <= MaxRowId

Init ==
    /\ users = {}
    /\ movies = {}
    /\ user_movies = {}
    /\ op = Op("init", DB, [db |-> DB, ret |-> "None"])
    /\ fetch = IdleFetch
    /\ reqs = [p \in Procs |-> IdleReq]

(***************************************************************************)
(* Inputs.                                                                 *)
(***************************************************************************)
NewUsers ==
    {[user_name |-> n, avatar_url |-> Some(DefaultAvatar)] : n \in Names}

NewMovies == {[movie_name |-> t, year |-> y] : t \in Titles, y \in Years}

AddMovieBodies ==
    {[keys |-> {}, movie_name |-> Str(""), rating |-> Num(0)],
     [keys |-> {"rating"}, movie_name |-> Str(""), rating |-> Num(5)],
     [keys |-> {"movie_name"}, movie_name |-> Str("A"), rating |-> Num(0)],
     [keys |-> {"movie_name", "rating"}, movie_name |-> Num(7), rating |-> Num(5)],
     [keys |-> {"movie_name", "rating"}, movie_name |-> Str("A"), rating |-> Str("5")],
     [keys |-> {"movie_name", "rating"}, movie_name |-> Str("A"), rating |-> Num(11)],
     [keys |-> {"movie_name", "rating"}, movie_name |-> Str("A"), rating |-> Num(0 - 1)],
     [keys |-> {"movie_name", "rating"}, movie_name |-> Str("A"), rating |-> Num(5)]}

AddMovieForms == {[keys |-> {"movie_name"}, movie_name |-> t] : t \in Titles}

\* what _get_movie_info returns for a title: the service knows it or not
MovieInfos(t) == {NotFoundInfo, FoundInfo(t, "1999")}

BodyTitle(body) ==
    IF "movie_name" \in body.keys /\ body.movie_name.t = "str"
    THEN body.movie_name.s ELSE "A"

\* the update form: a new title, or every field left empty
UpdateForms ==
    {[keys |-> {"movie_name", "year"}, movie_name |-> t, year |-> ""] :
        t \in Titles \cup {""}}

(***************************************************************************)
(* Direct calls of the data access layer.                                  *)
(***************************************************************************)
Call_add_user ==
    \E new_user \in NewUsers :
        LET r == add_user(DB, new_user)
        IN  /\ Commit(r.db)
            /\ op' = Op("add_user", DB, r)
            /\ UNCHANGED <<fetch, reqs>>

Call_add_movie ==
    \E new_movie \in NewMovies, user_id \in UserIds :
        LET r == add_movie(DB, new_movie, user_id)
        IN  /\ WithinBounds(r.db)
            /\ Commit(r.db)
            /\ op' = Op("add_movie", DB, r)
            /\ UNCHANGED <<fetch, reqs>>

\* the calls store one rating value; the properties of update_rating are
\* stated for every value of RatingValues
Call_update_rating ==
    \E user_id \in UserIds, movie_id \in MovieIds, rating \in {SetMin(RatingValues)} :
        LET r == update_rating(DB, user_id, movie_id, rating)
        IN  /\ Commit(r.db)
            /\ op' = Op("update_rating", DB, r)
            /\ UNCHANGED <<fetch, reqs>>

Call_delete_movie ==
    \E user_id \in UserIds, movie_id \in MovieIds :
        LET r == delete_movie(DB, user_id, movie_id)
        IN  /\ Commit(r.db)
            /\ op' = Op("delete_movie", DB, r)
            /\ UNCHANGED <<fetch, reqs>>

(***************************************************************************)
(* Requests to the route handlers.                                         *)
(***************************************************************************)
Req_csr_add_movie ==
    \E user_id \in UserIds, body \in AddMovieBodies :
      \E info \in MovieInfos(BodyTitle(body)) :
        LET r == csr_add_movie(DB, user_id, body, info)
        IN  /\ WithinBounds(r.db)
            /\ Commit(r.db)
            /\ op' = RouteOp("csr_add_movie", DB, r)
            /\ UNCHANGED <<fetch, reqs>>

Req_api_add_movie ==
    \E user_id \in UserIds, body \in AddMovieBodies :
      \E info \in MovieInfos(BodyTitle(body)) :
        LET r == api_add_movie(DB, user_id, body, info)
        IN  /\ WithinBounds(r.db)
            /\ Commit(r.db)
            /\ op' = RouteOp("api_add_movie", DB, r)
            /\ UNCHANGED <<fetch, reqs>>

Req_ssr_add_movie ==
    \E user_id \in UserIds, form \in AddMovieForms :
      \E info \in MovieInfos(form.movie_name) :
        LET r == ssr_add_movie(DB, user_id, form, info)
        IN  /\ WithinBounds(r.db)
            /\ Commit(r.db)
            /\ op' = RouteOp("ssr_add_movie", DB, r)
            /\ UNCHANGED <<fetch, reqs>>

\* the handler never reads the user_id of the URL
Req_ssr_update_movie ==
    \E movie_id \in MovieIds, form \in UpdateForms :
        LET user_id == 1
            r == ssr_update_movie(DB, user_id, movie_id, form)
        IN  /\ Commit(r.db)
            /\ op' = RouteOp("ssr_update_movie", DB, r)
            /\ UNCHANGED <<fetch, reqs>>

AddUserBodies ==
    {[keys |-> k, user_name |-> n, avatar_url |-> DefaultAvatar] :
        k \in SUBSET {"user_name", "avatar_url"}, n \in Names}

RatingBodies ==
    {[keys |-> {}, rating |-> Num(0)]}
    \cup {[keys |-> {"rating"}, rating |-> v] :
            v \in {Num(0 - 1), Num(10), Num(11), Str("5"), List,
                   Bool(TRUE)}}

Req_csr_add_user ==
    \E new_user \in AddUserBodies :
        LET r == csr_add_user(DB, new_user)
        IN  /\ Commit(r.db)
            /\ op' = RouteOp("csr_add_user", DB, r)
            /\ UNCHANGED <<fetch, reqs>>

Req_csr_update_rating ==
    \E user_id \in UserIds, movie_id \in MovieIds, rating \in RatingBodies :
        LET r == csr_update_rating(DB, user_id, movie_id, rating)
        IN  /\ Commit(r.db)
            /\ op' = RouteOp("csr_update_rating", DB, r)
            /\ UNCHANGED <<fetch, reqs>>

\* the rating form of app.update_rating
RatingForms == {[keys |-> {"rating"}, rating |-> "5"]}

Req_app_update_rating ==
    \E user_id \in UserIds, movie_id \in MovieIds, form \in RatingForms :
        LET r == app_update_rating(DB, user_id, movie_id, form)
        IN  /\ Commit(r.db)
            /\ op' = RouteOp("app_update_rating", DB, r)
            /\ UNCHANGED <<fetch, reqs>>

Req_csr_delete_movie ==
    \E user_id \in UserIds, movie_id \in MovieIds :
        LET r == csr_delete_movie(DB, user_id, movie_id)
        IN  /\ Commit(r.db)
            /\ op' = RouteOp("csr_delete_movie", DB, r)
            /\ UNCHANGED <<fetch, reqs>>

\* JSON bodies of update_movie: any subset of the keys, each with values
\* that pass and values that fail its rule
BodyAttributes == {"movie_name", "director", "year"}

BodyValues(attribute) ==
    CASE attribute = "movie_name" -> {Str("B"), List}
      [] attribute = "director" -> {Str("d"), Num(7)}
      [] attribute = "year" -> {Num(1999), Num(1878), Num(2031), Str("1999"),
                                Bool(TRUE)}

UpdateBodies ==
    UNION {{b \in [K -> UNION {BodyValues(a) : a \in BodyAttributes}] :
              \A a \in K : b[a] \in BodyValues(a)} :
           K \in SUBSET BodyAttributes}

\* the requests sent carry a title, a year, both or nothing; the properties
\* of update_movie are stated for every body of UpdateBodies
SentBodies ==
    {b \in UpdateBodies :
        /\ "director" \notin DOMAIN b
        /\ "year" \in DOMAIN b => b["year"] \in {Num(1999), Num(2031)}}

Req_csr_update_movie ==
    \E user_id \in UserIds, movie_id \in MovieIds, movie_to_update \in SentBodies :
        LET r == csr_update_movie(DB, user_id, movie_id, movie_to_update)
        IN  /\ Commit(r.db)
            /\ op' = RouteOp("csr_update_movie", DB, r)
            /\ UNCHANGED <<fetch, reqs>>

(***************************************************************************)
(* A call of get_new_movie_data, one action per request to the service.    *)
(***************************************************************************)
StatusCodes == {200, 401, 404, 500, 502, 503}

FoundYears == {"1999", "2011-2019"}

FoundRatings ==
    {<<ImdbRating("8.5/10")>>,
     <<ImdbRating("N/A")>>,
     <<Rating({"Source", "Value"}, "Rotten Tomatoes", "93%"), ImdbRating("7.0/10")>>,
     <<Rating({"Source", "Value"}, "Rotten Tomatoes", "93%")>>,
     <<Rating({"Source"}, IMDb, "")>>,
     <<>>}

\* the dictionaries a found-movie body decodes to: "Year" and "Ratings"
\* each present with a value, or absent
YearFields == {<<{"Year"}, y>> : y \in FoundYears} \cup {<<{}, "">>}
RatingsFields == {<<{"Ratings"}, rs>> : rs \in FoundRatings} \cup {<<{}, <<>>>>}

FoundInfos ==
    {MovieInfo({"Title"} \cup y[1] \cup rs[1], "A", y[2], rs[2]) :
        y \in YearFields, rs \in RatingsFields}

Responses ==
    {HttpResponse(status, "", NotFoundInfo) : status \in StatusCodes \ {200}}
    \cup {HttpResponse(200, text, NotFoundInfo) : text \in {"not_found", "undecodable"}}
    \cup {HttpResponse(200, "found", info) : info \in FoundInfos}
    \cup {RequestError(kind) : kind \in {"ConnectionError", "Timeout", "RequestException"}}

Fetch_call ==
    /\ fetch.pc = "idle"
    /\ fetch' = [IdleFetch EXCEPT !.pc = "loop"]
    /\ UNCHANGED <<users, movies, user_movies, op, reqs>>

Fetch_request ==
    /\ fetch.pc = "loop"
    /\ \E response \in Responses : fetch' = attempt(fetch, response)
    /\ UNCHANGED <<users, movies, user_movies, op, reqs>>

Fetch_build ==
    /\ fetch.pc = "returned"
    /\ LET r == get_new_movie_data(fetch.info)
       IN  fetch' = [fetch EXCEPT !.pc = "idle", !.out = r.ret, !.movie = r.movie]
    /\ UNCHANGED <<users, movies, user_movies, op, reqs>>

(***************************************************************************)
(* Concurrent requests: one action per statement of add_user, add_movie    *)
(* and delete_movie that queries or commits.                               *)
(***************************************************************************)
Goto(p, r) ==
    /\ reqs' = [reqs EXCEPT ![p] = r]
    /\ UNCHANGED <<op, fetch>>

\* Requests are observed two at a time: a thread takes a new request when
\* it has not served one in this round, or when both threads are done; in
\* that case a new round starts and only the new request is remembered.
Begin(p, r) ==
    /\ reqs[p].pc = "done"
    /\ \/ reqs[p].name = "idle"
       \/ \A q \in Procs : reqs[q].pc = "done"
    /\ IF \A q \in Procs : reqs[q].pc = "done"
       THEN reqs' = [q \in Procs |-> IF q = p THEN r ELSE IdleReq]
       ELSE reqs' = [reqs EXCEPT ![p] = r]
    /\ UNCHANGED <<op, fetch>>

At(p, name, pc) == reqs[p].name = name /\ reqs[p].pc = pc

Begin_add_user(p) ==
    /\ \E n \in Names : Begin(p, Req("add_user", "select_user", n, 0, "", 0))
    /\ UNCHANGED <<users, movies, user_movies>>

\* line 141
AddUser_select(p) ==
    /\ At(p, "add_user", "select_user")
    /\ LET r == reqs[p]
           user_exists == first_user({u \in users : u.user_name = r.user_name})
       IN  IF user_exists # None
           THEN Goto(p, Return(r, "False"))
           ELSE Goto(p, [r EXCEPT !.pc = "insert_user"])
    /\ UNCHANGED <<users, movies, user_movies>>

\* lines 146-148
AddUser_commit(p) ==
    /\ At(p, "add_user", "insert_user")
    /\ LET r == reqs[p]
           user_id == NextId({u.user_id : u \in users})
       IN  /\ user_id \in UserIds
           /\ users' = users \cup {User(user_id, r.user_name, Some(DefaultAvatar))}
           /\ Goto(p, Return([r EXCEPT !.commits = @ + 1], "True"))
    /\ UNCHANGED <<movies, user_movies>>

Begin_add_movie(p) ==
    /\ \E new_movie \in NewMovies, user_id \in UserIds :
         Begin(p, Req("add_movie", "select_title", "", user_id,
                     new_movie.movie_name, 0))
    /\ UNCHANGED <<users, movies, user_movies>>

\* lines 176-179
AddMovie_select_title(p) ==
    /\ At(p, "add_movie", "select_title")
    /\ LET r == reqs[p]
           movie_exists == first_movie({m \in movies : m.movie_name = r.title})
       IN  IF movie_exists = None
           THEN Goto(p, [r EXCEPT !.pc = "insert_movie"])
           ELSE Goto(p, [r EXCEPT !.pc = "select_movie", !.found = movie_exists])
    /\ UNCHANGED <<users, movies, user_movies>>

\* lines 180-181
AddMovie_commit_movie(p) ==
    /\ At(p, "add_movie", "insert_movie")
    /\ LET r == reqs[p]
           movie_id == NextId({m.movie_id : m \in movies})
       IN  /\ movie_id <= MaxMovieId
           /\ movies' = movies \cup
                 {Movie(movie_id, r.title, CHOOSE y \in Years : TRUE)}
           /\ Goto(p, [r EXCEPT !.pc = "select_movie", !.commits = @ + 1])
    /\ UNCHANGED <<users, user_movies>>

\* lines 183-184; movie.movie_id on line 187 raises when the row is gone
AddMovie_select_movie(p) ==
    /\ At(p, "add_movie", "select_movie")
    /\ LET r == reqs[p]
           movie == first_movie({m \in movies : m.movie_name = r.title})
       IN  IF movie = None
           THEN Goto(p, Return(r, "AttributeError"))
           ELSE Goto(p, [r EXCEPT !.pc = "select_pair", !.movie = movie])
    /\ UNCHANGED <<users, movies, user_movies>>

\* lines 186-190
AddMovie_select_pair(p) ==
    /\ At(p, "add_movie", "select_pair")
    /\ LET r == reqs[p]
           user_relationship_exists ==
               first_user_movie({um \in user_movies :
                                   /\ um.user_id = r.user_id
                                   /\ um.movie_id = r.movie[1].movie_id})
       IN  IF user_relationship_exists = None
           THEN Goto(p, [r EXCEPT !.pc = "insert_pair"])
           ELSE Goto(p, Return(r, "False"))
    /\ UNCHANGED <<users, movies, user_movies>>

\* lines 191-195; the foreign keys are not enforced (SQLite's default)
AddMovie_commit_pair(p) ==
    /\ At(p, "add_movie", "insert_pair")
    /\ LET r == reqs[p]
           id == NextId({um.id : um \in user_movies})
       IN  /\ id <= MaxRowId
           /\ user_movies' = user_movies \cup
                 {UserMovie(id, r.user_id, r.movie[1].movie_id, None)}
           /\ Goto(p, Return([r EXCEPT !.commits = @ + 1], "True"))
    /\ UNCHANGED <<users, movies>>

Begin_delete_movie(p) ==
    /\ \E user_id \in UserIds, movie_id \in MovieIds :
         Begin(p, Req("delete_movie", "select_movie", "", user_id, "", movie_id))
    /\ UNCHANGED <<users, movies, user_movies>>

\* lines 262-264
Delete_select_movie(p) ==
    /\ At(p, "delete_movie", "select_movie")
    /\ LET r == reqs[p]
           movie_name == first_movie({m \in movies : m.movie_id = r.movie_id})
       IN  IF movie_name = None
           THEN Goto(p, Return(r, "AttributeError"))
           ELSE Goto(p, [r EXCEPT !.pc = "select_pair", !.movie = movie_name,
                                   !.title = movie_name[1].movie_name])
    /\ UNCHANGED <<users, movies, user_movies>>

\* lines 267-270
Delete_select_pair(p) ==
    /\ At(p, "delete_movie", "select_pair")
    /\ LET r == reqs[p]
           user_movie == first_user_movie({um \in user_movies :
                                             /\ um.user_id = r.user_id
                                             /\ um.movie_id = r.movie_id})
       IN  IF user_movie = None
           THEN Goto(p, Return(r, "False"))
           ELSE Goto(p, [r EXCEPT !.pc = "delete_pair", !.found = user_movie])
    /\ UNCHANGED <<users, movies, user_movies>>

\* lines 271-272: DELETE by primary key; a row that is gone already only
\* gives a warning
Delete_commit_pair(p) ==
    /\ At(p, "delete_movie", "delete_pair")
    /\ LET r == reqs[p]
       IN  /\ user_movies' = {um \in user_movies : um.id # r.found[1].id}
           /\ Goto(p, [r EXCEPT !.pc = "select_others", !.commits = @ + 1])
    /\ UNCHANGED <<users, movies>>

\* lines 275-278, and line 286: the commit has expired movie_name, reading
\* movie_name.movie_name reloads the row and raises when it is gone
Delete_select_others(p) ==
    /\ At(p, "delete_movie", "select_others")
    /\ LET r == reqs[p]
           other_users == {um \in user_movies : um.movie_id = r.movie_id}
       IN  IF other_users = {}
           THEN Goto(p, [r EXCEPT !.pc = "select_orphan"])
           ELSE IF \E m \in movies : m.movie_id = r.movie_id
                THEN Goto(p, Return(r, "Movie"))
                ELSE Goto(p, Return(r, "ObjectDeletedError"))
    /\ UNCHANGED <<users, movies, user_movies>>

\* lines 279-281: session.delete(None) raises
Delete_select_orphan(p) ==
    /\ At(p, "delete_movie", "select_orphan")
    /\ LET r == reqs[p]
           movie == first_movie({m \in movies : m.movie_id = r.movie_id})
       IN  IF movie = None
           THEN Goto(p, Return(r, "UnmappedInstanceError"))
           ELSE Goto(p, [r EXCEPT !.pc = "delete_orphan", !.movie = movie])
    /\ UNCHANGED <<users, movies, user_movies>>

\* lines 281-288
Delete_commit_orphan(p) ==
    /\ At(p, "delete_movie", "delete_orphan")
    /\ LET r == reqs[p]
       IN  /\ movies' = {m \in movies : m.movie_id # r.movie_id}
           /\ Goto(p, Return([r EXCEPT !.commits = @ + 1], "Movie"))
    /\ UNCHANGED <<users, user_movies>>

\* Calls of the data access layer, and the update_movie route through
\* which DataManagerSQLite.update_movie is reached.
Next ==
    \/ Call_add_user
    \/ Call_add_movie
    \/ Call_update_rating
    \/ Call_delete_movie
    \/ Req_ssr_update_movie
    \/ Req_app_update_rating

Spec == Init /\ [][Next]_vars

\* The add_movie routes of the three versions, over databases built by the
\* data access layer.
NextRoutes ==
    \/ Call_add_user
    \/ Call_add_movie
    \/ Req_csr_add_movie
    \/ Req_api_add_movie
    \/ Req_ssr_add_movie

SpecRoutes == Init /\ [][NextRoutes]_vars

\* The JSON API (app_csr): users and ratings are written through its
\* routes; associations are created by add_movie of the data access layer.
NextCsr ==
    \/ Req_csr_add_user
    \/ Call_add_movie
    \/ Req_csr_update_rating

SpecCsr == Init /\ [][NextCsr]_vars

\* The movie routes of the JSON API (app_csr), over users added through
\* its add_user route and associations created by the data access layer.
NextCsrMovies ==
    \/ Req_csr_add_user
    \/ Call_add_movie
    \/ Req_csr_delete_movie
    \/ Req_csr_update_movie

SpecCsrMovies == Init /\ [][NextCsrMovies]_vars

\* The metadata client on its own.
NextFetcher ==
    \/ Fetch_call
    \/ Fetch_request
    \/ Fetch_build

SpecFetcher == Init /\ [][NextFetcher]_vars

\* Two threads of the server serving add_user requests.
NextConcurrentUsers ==
    \E p \in Procs :
        \/ Begin_add_user(p)
        \/ AddUser_select(p)
        \/ AddUser_commit(p)

SpecConcurrentUsers == Init /\ [][NextConcurrentUsers]_vars

\* Two threads of the server serving add_movie and delete_movie requests.
NextConcurrentMovies ==
    \E p \in Procs :
        \/ Begin_add_movie(p)
        \/ AddMovie_select_title(p)
        \/ AddMovie_commit_movie(p)
        \/ AddMovie_select_movie(p)
        \/ AddMovie_select_pair(p)
        \/ AddMovie_commit_pair(p)
        \/ Begin_delete_movie(p)
        \/ Delete_select_movie(p)
        \/ Delete_select_pair(p)
        \/ Delete_commit_pair(p)
        \/ Delete_select_others(p)
        \/ Delete_select_orphan(p)
        \/ Delete_commit_orphan(p)

SpecConcurrentMovies == Init /\ [][NextConcurrentMovies]_vars

(***************************************************************************)
(* Properties.  A property of an operation is stated for every input of    *)
(* the operation in every reachable database.                              *)
(***************************************************************************)
TitleRows(ms, t) == {m \in ms : m.movie_name = t}
MovieRefs(ums, movie_id) == {um \in ums : um.movie_id = movie_id}
PairRows(ums, user_id, movie_id) ==
    {um \in ums : um.user_id = user_id /\ um.movie_id = movie_id}

\* the user has an association with the Movie row a look-up by title
\* returns (the row with the least movie_id among those with the title)
HasMovie(db, user_id, t) ==
    \E m \in TitleRows(db.movies, t) :
        /\ \A n \in TitleRows(db.movies, t) : m.movie_id <= n.movie_id
        /\ PairRows(db.user_movies, user_id, m.movie_id) # {}

\* C1: in every state reached by completed operations, update_movie
\* requests that change movie_name included, no two Movie rows have the
\* same title.
C1_UniqueTitles ==
    \A m1 \in movies, m2 \in movies :
        m1.movie_name = m2.movie_name => m1 = m2

C3_NoOrphan ==
    \A m \in movies : MovieRefs(user_movies, m.movie_id) # {}

C3_Witness ==
    /\ op.name = "delete_movie"
    /\ op.d_movies = 0 - 1
    /\ movies # {}

\* C4: add_user with a name that exists returns False and leaves users
\* unchanged; with a new name it adds exactly one row and returns True; no
\* two User rows share a name.
C4_AddUser ==
    /\ \A u1 \in users, u2 \in users : u1.user_name = u2.user_name => u1 = u2
    /\ \A new_user \in NewUsers :
         LET r == add_user(DB, new_user)
         IN  IF \E u \in users : u.user_name = new_user.user_name
             THEN r.ret = "False" /\ r.db = DB
             ELSE /\ r.ret = "True"
                  /\ r.db.movies = movies
                  /\ r.db.user_movies = user_movies
                  /\ \E u \in r.db.users \ users :
                       /\ r.db.users = users \cup {u}
                       /\ u.user_name = new_user.user_name

C4_Witness ==
    /\ op.name = "add_user"
    /\ op.ret = "False"
    /\ Cardinality(users) = 2

\* C5: when a user adds a title no Movie row carries and a different user
\* then adds the same title, both calls return True and the database
\* holds exactly one Movie row with the title and exactly two UserMovie
\* rows referencing it, one per user.
C5_SharedMovie ==
    \A new_movie \in NewMovies, other_movie \in NewMovies,
       u1 \in UserIds, u2 \in UserIds :
        (/\ TitleRows(movies, new_movie.movie_name) = {}
         /\ other_movie.movie_name = new_movie.movie_name
         /\ u1 # u2)
        => LET r1 == add_movie(DB, new_movie, u1)
               r2 == add_movie(r1.db, other_movie, u2)
           IN  /\ r1.ret = "True"
               /\ r2.ret = "True"
               /\ \E m \in r2.db.movies :
                    /\ TitleRows(r2.db.movies, new_movie.movie_name) = {m}
                    /\ Cardinality(MovieRefs(r2.db.user_movies, m.movie_id)) = 2
                    /\ {um.user_id : um \in MovieRefs(r2.db.user_movies, m.movie_id)}
                         = {u1, u2}

C5_Witness ==
    /\ op.name = "add_movie"
    /\ op.ret = "True"
    /\ op.d_movies = 0
    /\ op.d_user_movies = 1
    /\ \E m \in movies :
         /\ TitleRows(movies, m.movie_name) = {m}
         /\ Cardinality(MovieRefs(user_movies, m.movie_id)) = 2
         /\ {um.user_id : um \in MovieRefs(user_movies, m.movie_id)} = UserIds

\* C6: when delete_movie removes the only remaining UserMovie row that
\* references movie_id, the same call removes the Movie row.
C6_Cascade ==
    \A user_id \in UserIds, movie_id \in MovieIds :
        (/\ MovieRefs(user_movies, movie_id) # {}
         /\ MovieRefs(user_movies, movie_id)
              = PairRows(user_movies, user_id, movie_id))
        => LET r == delete_movie(DB, user_id, movie_id)
           IN  /\ MovieRefs(r.db.user_movies, movie_id) = {}
               /\ \A m \in r.db.movies : m.movie_id # movie_id

C6_Witness ==
    /\ op.name = "delete_movie"
    /\ op.ret = "Movie"
    /\ op.d_user_movies = 0 - 1
    /\ op.d_movies = 0 - 1
    /\ Cardinality(movies) = 1
    /\ Cardinality(user_movies) = 1

\* C7: delete_movie called while another user still has an association
\* with movie_id removes the caller's UserMovie row only: the Movie rows,
\* the other UserMovie rows with their ratings and the User rows are
\* unchanged.
C7_DeleteFrame ==
    \A user_id \in UserIds, movie_id \in MovieIds :
        (\E um \in MovieRefs(user_movies, movie_id) : um.user_id # user_id)
        => LET r == delete_movie(DB, user_id, movie_id)
           IN  /\ r.db.movies = movies
               /\ r.db.users = users
               /\ r.db.user_movies =
                    user_movies \ PairRows(user_movies, user_id, movie_id)

C7_Witness ==
    /\ op.name = "delete_movie"
    /\ op.ret = "Movie"
    /\ op.d_user_movies = 0 - 1
    /\ op.d_movies = 0
    /\ \E um \in user_movies : um.rating # None

\* C8: update_rating changes the rating of the UserMovie row of exactly
\* the (user_id, movie_id) pair and leaves the other ratings, the Movie
\* rows and the User rows unchanged.
C8_RatingFrame ==
    \A user_id \in UserIds, movie_id \in MovieIds, rating \in RatingValues :
        LET r == update_rating(DB, user_id, movie_id, rating)
        IN  /\ r.db.movies = movies
            /\ r.db.users = users
            /\ r.db.user_movies =
                 {IF um.user_id = user_id /\ um.movie_id = movie_id
                  THEN [um EXCEPT !.rating = Some(rating)] ELSE um :
                     um \in user_movies}

C8_Witness ==
    /\ op.name = "update_rating"
    /\ op.ret = "True"
    /\ \E a \in user_movies, b \in user_movies :
         /\ a.user_id = b.user_id
         /\ a.movie_id # b.movie_id
         /\ a.rating # None
         /\ b.rating # a.rating

\* C9: adding a movie stores the given rating with it: after an add-movie
\* request by a registered user u who does not have the movie yet, with a
\* well-formed body carrying rating r and a title the metadata service
\* knows, get_user_movies(u) reports the movie with rating r.
WellFormedAddMovie(body) ==
    /\ body.keys = {"movie_name", "rating"}
    /\ body.movie_name.t = "str"
    /\ body.rating.t = "num"
    /\ 0 <= body.rating.n
    /\ body.rating.n <= 10

C9_RatingStored ==
    \A user_id \in UserIds, body \in AddMovieBodies :
        (/\ WellFormedAddMovie(body)
         /\ get_user_name(DB, user_id) # None
         /\ \A um \in user_movies, m \in TitleRows(movies, body.movie_name.s) :
              ~ (um.user_id = user_id /\ um.movie_id = m.movie_id))
        => LET info == FoundInfo(body.movie_name.s, "1999")
               r == csr_add_movie(DB, user_id, body, info)
           IN  \E p \in get_user_movies(r.db, user_id) :
                  /\ p[1] # None
                  /\ p[1][1].movie_name = info.Title
                  /\ p[2] = Some(body.rating.n)

\* C10: in the JSON API a POST to add_movie with a malformed body (empty,
\* movie_name or rating missing, movie_name not a string, rating not a
\* number or outside 0.0 to 10.0) is answered 400 and neither the metadata
\* client nor DataManagerSQLite.add_movie is invoked.
C10_MalformedRejected ==
    \A user_id \in UserIds, body \in AddMovieBodies :
        ~ WellFormedAddMovie(body) =>
            \A info \in MovieInfos(BodyTitle(body)) :
                LET r == csr_add_movie(DB, user_id, body, info)
                IN  r.status = 400 /\ r.calls = {}

\* an upstream server error: an HTTP response with a 5xx status
ServerError(response) ==
    response.kind = "response" /\ response.status >= 500 /\ response.status <= 599

\* C11: _get_movie_info retries the request whenever the service answers
\* with any HTTP 5xx status, until a response succeeds or max_retries
\* requests have been made.
C11_RetryOn5xx ==
    /\ Len(fetch.responses) <= max_retries
    /\ \A i \in 1 .. Len(fetch.responses) :
         (ServerError(fetch.responses[i]) /\ i < max_retries)
         => (fetch.pc = "loop" \/ Len(fetch.responses) > i)

\* a failure of the request other than an upstream server error
OtherFailure(response) ==
    /\ ~ ServerError(response)
    /\ ~ (response.kind = "response" /\ response.status = 200
          /\ response.text = "found")

\* C12: a failure of the metadata request other than an upstream server
\* error (HTTP 4xx, connection error, timeout, undecodable JSON, "Movie not
\* found!") is the last request of the call: no request and no sleep
\* follows it and _get_movie_info returns the empty dictionary; when it is
\* the answer to the first request, exactly one request was made and
\* nothing slept.
C12_NoRetry ==
    \A i \in 1 .. Len(fetch.responses) :
        OtherFailure(fetch.responses[i])
        => /\ i = Len(fetch.responses)
           /\ fetch.pc # "loop"
           /\ fetch.info = NotFoundInfo
           /\ Len(fetch.sleeps) = i - 1
           /\ (i = 1 => fetch.sleeps = <<>>)

C12_Witness ==
    /\ fetch.pc = "idle"
    /\ fetch.out = "None"
    /\ Len(fetch.responses) = 1
    /\ fetch.responses[1].kind = "Timeout"
    /\ fetch.sleeps = <<>>

\* C13: get_new_movie_data never raises to its caller: whatever the
\* service answered, it returns a Movie object or None.
C13_NeverRaises ==
    fetch.out \in {"", "Movie", "None"}

\* C14: when the service returns a found-movie response, get_new_movie_data
\* returns a Movie object whose movie_name and year (standing for the
\* other attributes) are taken from the response's Title and Year.
C14_FoundGivesMovie ==
    (fetch.out # "" /\ fetch.info = FoundInfo("A", "1999"))
    => /\ fetch.out = "Movie"
       /\ fetch.movie = Some([movie_name |-> "A", year |-> 1999])

\* C15: delete_movie(user_id, movie_id) called when the user has no
\* association with that movie, including when no Movie row with movie_id
\* exists, returns False, not an exception, and leaves the three tables
\* unchanged.
C15_DeleteMissing ==
    \A user_id \in UserIds, movie_id \in MovieIds :
        PairRows(user_movies, user_id, movie_id) = {}
        => LET r == delete_movie(DB, user_id, movie_id)
           IN  r.ret = "False" /\ r.db = DB

\* C16: update_rating for a (user_id, movie_id) pair that has no UserMovie
\* row returns a falsy value, creates no row and leaves every stored rating
\* unchanged.
C16_RatingMissing ==
    \A user_id \in UserIds, movie_id \in MovieIds, rating \in RatingValues :
        PairRows(user_movies, user_id, movie_id) = {}
        => LET r == update_rating(DB, user_id, movie_id, rating)
           IN  /\ ~ Truthy(r.ret)
               /\ ~ Raised(r.ret)
               /\ r.db = DB

C16_Witness ==
    /\ op.name = "update_rating"
    /\ op.ret = "None"
    /\ op.d_user_movies = 0
    /\ \E um \in user_movies : um.rating # None

\* the Movie objects a caller can pass for a title: the attributes may
\* differ from those of the stored row
CandidateYears == Years \cup {2000}
CandidateMovies ==
    {[movie_name |-> t, year |-> y] : t \in Titles, y \in CandidateYears}

\* C17: add_movie with a title that exists in the movies table inserts no
\* Movie row and changes no attribute of the existing row, whatever
\* attributes the new Movie object carries.
C17_ReuseRow ==
    \A new_movie \in CandidateMovies, user_id \in UserIds :
        TitleRows(movies, new_movie.movie_name) # {}
        => add_movie(DB, new_movie, user_id).db.movies = movies

C17_Witness ==
    /\ op.name = "add_movie"
    /\ op.ret = "True"
    /\ op.d_movies = 0
    /\ op.d_user_movies = 1
    /\ \E new_movie \in CandidateMovies, m \in movies :
         /\ m.movie_name = new_movie.movie_name
         /\ m.year # new_movie.year

\* the Movie objects a caller can pass to update_movie: none, or one with
\* any primary key
UpdatedMovies ==
    {None} \cup {Some(Movie(movie_id, t, y)) :
                    movie_id \in MovieIds, t \in Titles, y \in CandidateYears}

\* C19: no operation deletes or modifies a User row: after add_user,
\* add_movie, update_rating, update_movie or delete_movie every User row is
\* still there with its user_id, user_name and avatar_url.
C19_UsersKept ==
    /\ \A new_user \in NewUsers : users \subseteq add_user(DB, new_user).db.users
    /\ \A new_movie \in CandidateMovies, user_id \in UserIds :
         add_movie(DB, new_movie, user_id).db.users = users
    /\ \A user_id \in UserIds, movie_id \in MovieIds, rating \in RatingValues :
         update_rating(DB, user_id, movie_id, rating).db.users = users
    /\ \A updated_movie \in UpdatedMovies :
         update_movie(DB, updated_movie).db.users = users
    /\ \A user_id \in UserIds, movie_id \in MovieIds :
         delete_movie(DB, user_id, movie_id).db.users = users

C19_Witness ==
    /\ op.name = "add_user"
    /\ op.ret = "False"
    /\ Cardinality(users) = 2
    /\ user_movies # {}

\* a rating that is missing, not a number, below 0.0 or above 10.0
InvalidRating(body) ==
    \/ "rating" \notin body.keys
    \/ ~ body.rating.t \in {"num", "bool"}
    \/ body.rating.n < 0
    \/ body.rating.n > 10

C20_AvatarOptional ==
    \A new_user \in AddUserBodies :
        (/\ new_user.keys = {"user_name"}
         /\ \A u \in users : u.user_name # new_user.user_name)
        => LET r == csr_add_user(DB, new_user)
           IN  /\ r.status = 201
               /\ \E u \in r.db.users \ users : u.user_name = new_user.user_name

\* C21: every request takes effect atomically: while a request is between
\* two commits of its own, the committed database, which a concurrent
\* request reads, holds no Movie row without an association (a Movie row
\* add_movie inserted and has not attached yet, or one whose last
\* association delete_movie has removed).
C21_Atomic ==
    \A p \in Procs :
        (reqs[p].pc # "done" /\ reqs[p].commits > 0)
        => \A m \in movies : MovieRefs(user_movies, m.movie_id) # {}

\* both threads have finished a request of the kind
BothDone(name1, name2) ==
    /\ reqs[1].pc = "done"
    /\ reqs[2].pc = "done"
    /\ \/ (reqs[1].name = name1 /\ reqs[2].name = name2)
       \/ (reqs[1].name = name2 /\ reqs[2].name = name1)

\* C22: after two concurrent add_user requests with the same user_name, at
\* most one User row has that name and at most one request reported
\* success.
C22_AddUserRace ==
    (BothDone("add_user", "add_user") /\ reqs[1].user_name = reqs[2].user_name)
    => /\ Cardinality({u \in users : u.user_name = reqs[1].user_name}) <= 1
       /\ ~ (reqs[1].ret = "True" /\ reqs[2].ret = "True")

\* C23: after two concurrent add_movie requests for the same title, exactly
\* one Movie row has that title and every (user, movie) pair has at most
\* one UserMovie row.
C23_AddMovieRace ==
    (BothDone("add_movie", "add_movie") /\ reqs[1].title = reqs[2].title)
    => /\ Cardinality(TitleRows(movies, reqs[1].title)) = 1
       /\ \A a \in user_movies, b \in user_movies :
            (a.user_id = b.user_id /\ a.movie_id = b.movie_id) => a = b

\* C24: after a delete_movie request that removed an association of a
\* movie, run concurrently with an add_movie request of another user for
\* the movie's title, every UserMovie row references a Movie row that
\* exists and neither request ended in an exception.
C24_DeleteAddRace ==
    (/\ BothDone("delete_movie", "add_movie")
     /\ reqs[1].title = reqs[2].title
     /\ reqs[1].user_id # reqs[2].user_id
     /\ \E p \in Procs : reqs[p].name = "delete_movie" /\ reqs[p].commits > 0)
    => /\ \A um \in user_movies : \E m \in movies : m.movie_id = um.movie_id
       /\ \A p \in Procs : ~ Raised(reqs[p].ret)

\* C25: referential integrity: every UserMovie row references a User row
\* and a Movie row that exist, and add_movie with a user_id that has no
\* User row creates no association.
C25_Referential ==
    /\ \A um \in user_movies :
        /\ \E u \in users : u.user_id = um.user_id
        /\ \E m \in movies : m.movie_id = um.movie_id
    /\ \A new_movie \in NewMovies, user_id \in UserIds :
        (/\ \A u \in users : u.user_id # user_id
         /\ WithinBounds(add_movie(DB, new_movie, user_id).db))
        => add_movie(DB, new_movie, user_id).db.user_movies = user_movies

\* C27: in every route version, when the metadata client returns no movie
\* for the title of a well-formed request, add_movie answers 404 and the
\* users, movies and user_movies tables are unchanged.
C27_NotFound404 ==
    \A user_id \in UserIds :
        /\ \A body \in AddMovieBodies :
            WellFormedAddMovie(body)
            => /\ csr_add_movie(DB, user_id, body, NotFoundInfo).status = 404
               /\ csr_add_movie(DB, user_id, body, NotFoundInfo).db = DB
               /\ api_add_movie(DB, user_id, body, NotFoundInfo).status = 404
               /\ api_add_movie(DB, user_id, body, NotFoundInfo).db = DB
        /\ \A form \in AddMovieForms :
               /\ ssr_add_movie(DB, user_id, form, NotFoundInfo).status = 404
               /\ ssr_add_movie(DB, user_id, form, NotFoundInfo).db = DB

\* C26: the JSON API's delete_movie and update_movie routes end in an
\* explicit response that reflects the data-layer result: when the user
\* and the movie exist and the user has no association with the movie,
\* delete_movie answers an error status from a return statement of its own
\* and deletes nothing; update_movie answers 200 only when update_movie of
\* the data layer reported the update.
C26_ExplicitResponse ==
    \A user_id \in UserIds, movie_id \in MovieIds :
        /\ (/\ get_user_name(DB, user_id) # None
            /\ get_movie(DB, movie_id) # None
            /\ \A um \in user_movies :
                 ~ (um.user_id = user_id /\ um.movie_id = movie_id))
           => LET r == csr_delete_movie(DB, user_id, movie_id)
              IN  /\ r.status >= 400
                  /\ ~ Raised(r.ret)
                  /\ r.db = DB
        /\ \A movie_to_update \in UpdateBodies :
              LET r == csr_update_movie(DB, user_id, movie_id, movie_to_update)
              IN  r.status = 200
                  => (r.ret = "Name" /\ "update_movie" \in r.calls)

\* C28: in the server-rendered routes a POST to update_movie or
\* update_rating for a movie_id with no Movie row is answered 404 and
\* changes nothing in the database.
C28_MissingMovie404 ==
    \A user_id \in UserIds, movie_id \in MovieIds :
        get_movie(DB, movie_id) = None
        => /\ \A form \in UpdateForms :
                /\ ssr_update_movie(DB, user_id, movie_id, form).status = 404
                /\ ssr_update_movie(DB, user_id, movie_id, form).db = DB
           /\ \A form \in RatingForms :
                /\ app_update_rating(DB, user_id, movie_id, form).status = 404
                /\ app_update_rating(DB, user_id, movie_id, form).db = DB

\* a supplied field that is not valid: a year that is not a four-digit
\* integer with 1878 < year < 2031, any other field that is not a string
FailsValidation(attribute, value) ==
    IF attribute = "year"
    THEN ~ (value.t = "num" /\ 1878 < value.n /\ value.n < 2031
            /\ 1000 <= value.n /\ value.n <= 9999)
    ELSE value.t # "str"

\* C29: in the JSON API's update_movie route, for a registered user and a
\* stored movie, a body in which any supplied field fails validation is
\* answered 400 and leaves the database, the Movie row included, as it
\* was, whatever valid fields the body holds besides.
C29_InvalidUnchanged ==
    \A user_id \in UserIds, movie_id \in MovieIds, movie_to_update \in UpdateBodies :
        (/\ get_user_name(DB, user_id) # None
         /\ get_movie(DB, movie_id) # None
         /\ \E a \in DOMAIN movie_to_update : FailsValidation(a, movie_to_update[a]))
        => LET r == csr_update_movie(DB, user_id, movie_id, movie_to_update)
           IN  /\ r.status = 400
               /\ r.db = DB

\* update_movie has answered 400, and a body with a valid new title and an
\* invalid year is rejected for a stored movie of another title
C29_Witness ==
    /\ op.name = "csr_update_movie"
    /\ op.status = 400
    /\ \E user_id \in UserIds, m \in movies, movie_to_update \in SentBodies :
        /\ get_user_name(DB, user_id) # None
        /\ DOMAIN movie_to_update = {"movie_name", "year"}
        /\ movie_to_update["movie_name"].t = "str"
        /\ movie_to_update["movie_name"].s # m.movie_name
        /\ FailsValidation("year", movie_to_update["year"])
        /\ csr_update_movie(DB, user_id, m.movie_id, movie_to_update).status = 400

\* C30: _get_movie_info terminates: it issues at most max_retries
\* requests, after the k-th server-error response of a call it sleeps
\* initial_delay * 2^(k-1) seconds, and when it has returned without a
\* successful response it has returned the empty dictionary.
C30_BoundedBackoff ==
    /\ Len(fetch.responses) <= max_retries
    /\ \A k \in 1 .. Len(fetch.responses) :
         (\A i \in 1 .. k : ServerError(fetch.responses[i]))
         => /\ Len(fetch.sleeps) >= k
            /\ fetch.sleeps[k] = initial_delay * (2 ^ (k - 1))
    /\ (/\ fetch.pc = "returned"
        /\ \A i \in 1 .. Len(fetch.responses) :
             ServerError(fetch.responses[i]) \/ OtherFailure(fetch.responses[i]))
       => fetch.info = NotFoundInfo

====
